---- MODULE Spec2Model ----
(***************************************************************************)
(* Model of functionary/inference.py: tool-choice resolution, code-        *)
(* interpreter substitution, prompt assembly, stop-sequence construction,  *)
(* the decode loop with its stop predicate, and post-generation trimming.  *)
(*                                                                         *)
(* Three specifications share the variables:                               *)
(*   SpecTrim  - remove_stop_tokens_from_end applied once and twice        *)
(*   SpecTools - enforce_tool_choice, enforce_code_interpreter and         *)
(*               prepare_messages_for_inference called on caller objects   *)
(*   SpecGen   - one generate_message request (FairSpecGen adds progress)  *)
(***************************************************************************)
EXTENDS Integers, Sequences, FiniteSets, TLC

VARIABLES
    pc,               \* position of the running call
    \* ---- remove_stop_tokens_from_end
    trim_ids,         \* token_ids argument
    trim_stops,       \* stop_sequences argument (a list of id lists)
    trim_once,        \* result of the first call
    trim_twice,       \* result of calling again on the first result
    \* ---- tool functions / prompt assembly
    caller_tools,     \* the caller's tool list object (or None)
    caller_messages,  \* the caller's message list object
    orig_messages,    \* ghost: caller_messages as first passed in
    tool_choice,      \* the tool-choice policy
    call,             \* last function called
    arg_tools,        \* ghost: contents of the tool list when the call began
    result,           \* value returned (or error raised) by the last call
    dic_messages,     \* prepare_messages_for_inference's local record list
    rendered,         \* text returned by the template's renderer
    final_prompt,     \* text handed to the tokenizer
    \* ---- generate_message
    stops_kw,         \* kwargs["stops"]
    max_new_tokens,
    inputs,           \* prompt token ids
    stop_markers,     \* the markers the for loop iterates over
    stop_words_ids,   \* stop sequences built so far
    generate_ids,     \* prompt + generated ids held by model.generate
    stop_signal,      \* last value returned by StopWordsCriteria.__call__
    token_ids,        \* ids handed to tokenizer.decode
    generated_content \* decoded, stripped text handed to the response parser

vars == <<pc, trim_ids, trim_stops, trim_once, trim_twice,
          caller_tools, caller_messages, orig_messages,
          tool_choice, call, arg_tools, result, dic_messages, rendered,
          final_prompt,
          stops_kw, max_new_tokens, inputs, stop_markers, stop_words_ids,
          generate_ids, stop_signal, token_ids, generated_content>>

trimVars == <<trim_ids, trim_stops, trim_once, trim_twice>>
toolVars == <<caller_tools, caller_messages, orig_messages,
              tool_choice, call, arg_tools, result, dic_messages, rendered,
              final_prompt>>
genVars  == <<stops_kw, max_new_tokens, inputs, stop_markers, stop_words_ids,
              generate_ids, stop_signal, token_ids, generated_content>>

----------------------------------------------------------------------------
\* Bounds of the model.

\* longest token_ids list given to remove_stop_tokens_from_end
MaxTokens == 3
\* most stop sequences in a stop_sequences list
MaxStopSeqs == 2
\* longest stop sequence given to remove_stop_tokens_from_end
MaxStopLen == 2
\* longest text (in pieces) of a rendered prompt or of a stop marker
MaxTextLen == 2
\* largest max_new_tokens of a request
MaxNewTokens == 3
\* longest declared tool list
MaxTools == 2

\* the id the Llama tokenizer sometimes puts in front of an encoding
SentinelId == 29871

----------------------------------------------------------------------------
\* Python list semantics.

SeqsUpTo(S, n) == UNION { [1..k -> S] : k \in 0..n }

\* s[-n:]   (s[-0:] is s[0:], the whole list)
SliceLast(s, n) ==
    IF n = 0 \/ n >= Len(s) THEN s ELSE SubSeq(s, Len(s) - n + 1, Len(s))

\* s[:-n]   (s[:-0] is s[:0], the empty list)
SliceDropLast(s, n) ==
    IF n = 0 \/ n >= Len(s) THEN <<>> ELSE SubSeq(s, 1, Len(s) - n)

\* s[n:]
SliceFrom(s, n) ==
    IF n >= Len(s) THEN <<>> ELSE SubSeq(s, n + 1, Len(s))

\* the elements of list whose length is n, in list order
RECURSIVE OfLen(_, _)
OfLen(list, n) ==
    IF list = <<>> THEN <<>>
    ELSE IF Len(Head(list)) = n
         THEN <<Head(list)>> \o OfLen(Tail(list), n)
         ELSE OfLen(Tail(list), n)

RECURSIVE LongestLen(_)
LongestLen(list) ==
    IF list = <<>> THEN 0
    ELSE LET r == LongestLen(Tail(list))
         IN  IF Len(Head(list)) > r THEN Len(Head(list)) ELSE r

\* mutant of sorted_sequences: the key loses its minus sign, shortest first
RECURSIVE SortedUpFrom(_, _, _)
SortedUpFrom(list, n, top) ==
    IF n > top THEN <<>> ELSE OfLen(list, n) \o SortedUpFrom(list, n + 1, top)

sorted_shortest_first(stop_sequences) ==
    SortedUpFrom(stop_sequences, 0, LongestLen(stop_sequences))

\* sorted(stop_sequences, key=lambda x: -len(x)): stable, longest first
RECURSIVE SortedFrom(_, _)
SortedFrom(list, n) ==
    IF n < 0 THEN <<>> ELSE OfLen(list, n) \o SortedFrom(list, n - 1)

sorted_sequences(stop_sequences) ==
    SortedFrom(stop_sequences, LongestLen(stop_sequences))

----------------------------------------------------------------------------
\* remove_stop_tokens_from_end

\* mutant of RemoveLoop: the slice is taken from the front, ids[:len(seg)]
RECURSIVE RemoveLoopFront(_, _)
RemoveLoopFront(ids, segs) ==
    IF segs = <<>> THEN ids
    ELSE LET seg == Head(segs)
         IN  IF Len(ids) >= Len(seg) /\ SubSeq(ids, 1, Len(seg)) = seg
             THEN SliceDropLast(ids, Len(seg))
             ELSE RemoveLoopFront(ids, Tail(segs))

RECURSIVE RemoveLoop(_, _)
RemoveLoop(ids, segs) ==
    IF segs = <<>> THEN ids
    ELSE LET seg == Head(segs)
         IN  IF Len(ids) >= Len(seg) /\ SliceLast(ids, Len(seg)) = seg
             THEN SliceDropLast(ids, Len(seg))
             ELSE RemoveLoop(ids, Tail(segs))

remove_stop_tokens_from_end(ids, stop_sequences) ==
    RemoveLoop(ids, sorted_sequences(stop_sequences))

----------------------------------------------------------------------------
\* Values standing for Python objects.

\* a Tool: its type discriminator and its function's fields
ToolRec(t, n, d, p) == [type |-> t, name |-> n, description |-> d, parameters |-> p]

\* Optional[List[Tool]]: None, or a list
NoneList == [isNone |-> TRUE, items |-> <<>>]
ListOf(items) == [isNone |-> FALSE, items |-> items]

\* values of the variables a specification does not use
Unused == "unused"

IdleTrim ==
    /\ trim_ids = <<>>
    /\ trim_stops = <<>>
    /\ trim_once = <<>>
    /\ trim_twice = <<>>

IdleTools ==
    /\ caller_tools = NoneList
    /\ caller_messages = <<>>
    /\ orig_messages = <<>>
    /\ tool_choice = Unused
    /\ call = Unused
    /\ arg_tools = NoneList
    /\ result = Unused
    /\ dic_messages = <<>>
    /\ rendered = <<>>
    /\ final_prompt = <<>>

IdleGen ==
    /\ stops_kw = <<>>
    /\ max_new_tokens = 0
    /\ inputs = <<>>
    /\ stop_markers = <<>>
    /\ stop_words_ids = <<>>
    /\ generate_ids = <<>>
    /\ stop_signal = FALSE
    /\ token_ids = <<>>
    /\ generated_content = <<>>

----------------------------------------------------------------------------
\* SpecTrim: remove_stop_tokens_from_end on every bounded input, then again
\* on its own result.

\* token ids used in the lists given to the trimmer
TrimTokenIds == {5, 7}

TrimStopSeqs == SeqsUpTo(TrimTokenIds, MaxStopLen)

InitTrim ==
    /\ pc = "trim"
    /\ trim_ids \in SeqsUpTo(TrimTokenIds, MaxTokens)
    /\ trim_stops \in SeqsUpTo(TrimStopSeqs, MaxStopSeqs)
    /\ trim_once = <<>>
    /\ trim_twice = <<>>
    /\ IdleTools
    /\ IdleGen

TrimOnce ==
    /\ pc = "trim"
    /\ trim_once' = remove_stop_tokens_from_end(trim_ids, trim_stops)
    /\ pc' = "retrim"
    /\ UNCHANGED <<trim_ids, trim_stops, trim_twice, toolVars, genVars>>

TrimAgain ==
    /\ pc = "retrim"
    /\ trim_twice' = remove_stop_tokens_from_end(trim_once, trim_stops)
    /\ pc' = "trimmed"
    /\ UNCHANGED <<trim_ids, trim_stops, trim_once, toolVars, genVars>>

NextTrim == TrimOnce \/ TrimAgain

SpecTrim == InitTrim /\ [][NextTrim]_vars

\* w is a suffix of s, element by element
IsSuffix(w, s) ==
    /\ Len(w) <= Len(s)
    /\ \A k \in 1..Len(w) : s[Len(s) - Len(w) + k] = w[k]

\* indices of the stop sequences that are a suffix of s
Matching(s, stops) == { i \in 1..Len(stops) : IsSuffix(stops[i], s) }

NonEmptyMatching(s, stops) == { i \in Matching(s, stops) : Len(stops[i]) > 0 }

\* C4: remove_stop_tokens_from_end(S, stops) is S with exactly the longest
\* stop sequence that is a suffix of S removed from its end, and is S itself
\* when no stop sequence is a suffix of S.
C4_TrimRemovesLongest ==
    pc \in {"retrim", "trimmed"} =>
        IF Matching(trim_ids, trim_stops) = {}
        THEN trim_once = trim_ids
        ELSE \E i \in Matching(trim_ids, trim_stops) :
                /\ \A j \in Matching(trim_ids, trim_stops) :
                      Len(trim_stops[i]) >= Len(trim_stops[j])
                /\ trim_once \o trim_stops[i] = trim_ids

\* a shorter and a longer stop sequence both end S; the longer one was removed
C4_Witness ==
    /\ pc = "retrim"
    /\ \E i, j \in Matching(trim_ids, trim_stops) :
          /\ 0 < Len(trim_stops[i])
          /\ Len(trim_stops[i]) < Len(trim_stops[j])
          /\ trim_once \o trim_stops[j] = trim_ids

\* C3 as stated: whenever S ends with a stop sequence, trimming the trimmed
\* result again changes nothing.
C3_Original ==
    (pc = "trimmed" /\ Matching(trim_ids, trim_stops) # {})
        => trim_twice = trim_once

\* C3 amended: when S ends with a stop sequence, trimming the trimmed result
\* again changes nothing exactly when no non-empty stop sequence is a suffix
\* of the trimmed result; otherwise the second run strips a further one.
C3_RetrimNoOpUnlessSuffixRemains ==
    (pc = "trimmed" /\ Matching(trim_ids, trim_stops) # {}) =>
        IF NonEmptyMatching(trim_once, trim_stops) = {}
        THEN trim_twice = trim_once
        ELSE /\ Len(trim_twice) < Len(trim_once)
             /\ SubSeq(trim_once, 1, Len(trim_twice)) = trim_twice

\* a stop sequence was stripped and the second run left the result alone
C3_Witness ==
    /\ pc = "trimmed"
    /\ NonEmptyMatching(trim_ids, trim_stops) # {}
    /\ trim_once # trim_ids
    /\ trim_twice = trim_once

----------------------------------------------------------------------------
\* The tokenizer and the template, as far as inference.py relies on them.
\* A text is a sequence of pieces; each piece has one token id.

\* pieces of rendered prompts and of stop markers
TextPieces == {"x", "e", "sp"}

\* pieces in front of which the tokenizer inserts SentinelId
QuirkPieces == {"e"}

PieceId(p) ==
    CASE p = "x" -> 5
      [] p = "e" -> 7
      [] p = "sp" -> SentinelId
      [] p = "f" -> 11
      [] p = "g" -> 12
      [] p = "h" -> 13
      [] p = "all" -> 14
      [] p = "fparam" -> 15
      [] p = "ci" -> 16
      [] p = "python" -> 17

IdPiece(i) == CHOOSE p \in TextPieces : PieceId(p) = i

\* tokenizer(text).input_ids / tokenizer.encode(text, add_special_tokens=...)
Encode(text, add_special_tokens) ==
    (IF add_special_tokens THEN <<1>> ELSE <<>>)
    \o (IF text # <<>> /\ text[1] \in QuirkPieces THEN <<SentinelId>> ELSE <<>>)
    \o [i \in 1..Len(text) |-> PieceId(text[i])]

\* str.strip() on decoded text: leading and trailing whitespace pieces go
RECURSIVE LStrip(_)
LStrip(text) ==
    IF text # <<>> /\ Head(text) = "sp" THEN LStrip(Tail(text)) ELSE text

RECURSIVE RStrip(_)
RStrip(text) ==
    IF text # <<>> /\ text[Len(text)] = "sp"
    THEN RStrip(SubSeq(text, 1, Len(text) - 1))
    ELSE text

\* tokenizer.decode(token_ids, skip_special_tokens=False, ...).strip()
DecodeStrip(ids) == RStrip(LStrip([i \in 1..Len(ids) |-> IdPiece(ids[i])]))

\* prompt_template.get_stop_tokens_for_generation()
TemplateStops == << <<"e">> >>

\* prompt_template.get_predefined_function_names()
PredefinedFunctionNames == <<"all">>

\* prompt_template.get_stop_token_for_function_parameter(stage="function")
StopTokenForFunctionParameter == <<"fparam">>

\* tool_choice values: None, "auto", "none", or a Tool
NoTool == ToolRec("", "", "", "None")
ChoiceNone == [kind |-> "None", tool |-> NoTool]
ChoiceStr(str) == [kind |-> str, tool |-> NoTool]
ChoiceTool(t) == [kind |-> "Tool", tool |-> t]

\* mutant of ForcedSuffix: "none" is treated like "auto"
ForcedSuffixToolOnly(tc) ==
    IF tc.kind = "Tool"
    THEN <<tc.tool.name>> \o StopTokenForFunctionParameter
    ELSE <<>>

\* lines 75-82: what prepare_messages_for_inference appends to the rendering
ForcedSuffix(tc) ==
    IF tc.kind # "None" /\ tc.kind # "auto"
    THEN (IF tc.kind = "none"
          THEN <<PredefinedFunctionNames[1]>>
          ELSE <<tc.tool.name>>)
         \o StopTokenForFunctionParameter
    ELSE <<>>

\* input_ids returned by prepare_messages_for_inference for a rendering
prepare_messages_for_inference(rendering, tc) ==
    Encode(rendering \o ForcedSuffix(tc), TRUE)

----------------------------------------------------------------------------
\* StopWordsCriteria.__call__ on the id list the generation loop hands it
RECURSIVE StopWordsCriteria(_, _)
StopWordsCriteria(ids, stops) ==
    IF stops = <<>> THEN FALSE
    ELSE LET stop == Head(stops)
         IN  IF Len(ids) >= Len(stop) /\ SliceLast(ids, Len(stop)) = stop
             THEN TRUE
             ELSE StopWordsCriteria(ids, Tail(stops))

\* mutant of StopIds: the length test is dropped
StopIdsNoLengthTest(marker) ==
    LET tok_ids == Encode(marker, FALSE)
    IN  IF Len(tok_ids) > 0 /\ tok_ids[1] = SentinelId
        THEN Tail(tok_ids)
        ELSE tok_ids

\* lines 189-193: the stop sequence of one marker
StopIds(marker) ==
    LET tok_ids == Encode(marker, FALSE)
    IN  IF Len(tok_ids) > 1 /\ tok_ids[1] = SentinelId
        THEN Tail(tok_ids)
        ELSE tok_ids

----------------------------------------------------------------------------
\* SpecGen: one generate_message request.

\* stop markers a caller passes: non-empty texts
Markers == SeqsUpTo(TextPieces, MaxTextLen) \ {<<>>}

\* ids model.generate may sample
GenTokenIds == {5, 7, SentinelId}

InitGen ==
    /\ pc = "start"
    /\ rendered \in SeqsUpTo(TextPieces, MaxTextLen)
    /\ stops_kw \in {<<>>} \cup { <<m>> : m \in Markers }
    /\ max_new_tokens \in 1..MaxNewTokens
    /\ inputs = <<>>
    /\ stop_markers = <<>>
    /\ stop_words_ids = <<>>
    /\ generate_ids = <<>>
    /\ stop_signal = FALSE
    /\ token_ids = <<>>
    /\ generated_content = <<>>
    /\ IdleTrim
    /\ caller_tools = NoneList
    /\ caller_messages = <<>>
    /\ orig_messages = <<>>
    /\ tool_choice = ChoiceNone
    /\ call = Unused
    /\ arg_tools = NoneList
    /\ result = Unused
    /\ dic_messages = <<>>
    /\ final_prompt = <<>>

\* lines 176-188: assemble the prompt (no tool_choice is passed on), and
\* collect the markers to tokenize
GenPrepare ==
    /\ pc = "start"
    /\ final_prompt' = rendered \o ForcedSuffix(ChoiceNone)
    /\ inputs' = prepare_messages_for_inference(rendered, ChoiceNone)
    /\ stop_markers' = stops_kw \o TemplateStops
    /\ pc' = "stops"
    /\ UNCHANGED <<trimVars, caller_tools, caller_messages,
                   orig_messages, tool_choice, call, arg_tools, result,
                   dic_messages, rendered, stops_kw, max_new_tokens,
                   stop_words_ids, generate_ids, stop_signal, token_ids,
                   generated_content>>

\* lines 186-194: one iteration of the for loop
GenBuildStop ==
    /\ pc = "stops"
    /\ Len(stop_words_ids) < Len(stop_markers)
    /\ stop_words_ids' =
          Append(stop_words_ids, StopIds(stop_markers[Len(stop_words_ids) + 1]))
    /\ UNCHANGED <<pc, trimVars, toolVars, stops_kw, max_new_tokens, inputs,
                   stop_markers, generate_ids, stop_signal, token_ids,
                   generated_content>>

\* lines 196-198: the loop is over; model.generate starts from the prompt
GenStart ==
    /\ pc = "stops"
    /\ Len(stop_words_ids) = Len(stop_markers)
    /\ generate_ids' = inputs
    /\ pc' = "generate"
    /\ UNCHANGED <<trimVars, toolVars, stops_kw, max_new_tokens, inputs,
                   stop_markers, stop_words_ids, stop_signal, token_ids,
                   generated_content>>

\* mutant of Halts: the ceiling is compared with > instead of >=
HaltsLate(ids, signal) ==
    signal \/ Len(ids) - Len(inputs) > max_new_tokens

\* the decode loop halts after this token
Halts(ids, signal) ==
    signal \/ Len(ids) - Len(inputs) >= max_new_tokens

\* lines 197-202: model.generate samples one token, appends it, and asks the
\* stopping criteria (the stop words and the max_new_tokens ceiling)
GenToken ==
    /\ pc = "generate"
    /\ \E tok \in GenTokenIds :
          /\ generate_ids' = Append(generate_ids, tok)
          /\ stop_signal' = StopWordsCriteria(generate_ids', stop_words_ids)
          /\ pc' = IF Halts(generate_ids', stop_signal')
                   THEN "decode" ELSE "generate"
    /\ UNCHANGED <<trimVars, toolVars, stops_kw, max_new_tokens, inputs,
                   stop_markers, stop_words_ids, token_ids, generated_content>>

\* lines 203-212: slice off the prompt, decode, strip, parse
GenDecode ==
    /\ pc = "decode"
    /\ token_ids' = SliceFrom(generate_ids, Len(inputs))
    /\ generated_content' = DecodeStrip(token_ids')
    /\ pc' = "done"
    /\ UNCHANGED <<trimVars, toolVars, stops_kw, max_new_tokens, inputs,
                   stop_markers, stop_words_ids, generate_ids, stop_signal>>

NextGen == GenPrepare \/ GenBuildStop \/ GenStart \/ GenToken \/ GenDecode

SpecGen == InitGen /\ [][NextGen]_vars

\* generate_message runs on one thread; each step it can take, it takes
FairSpecGen == SpecGen /\ WF_vars(NextGen)

\* the part of generate_ids that model.generate produced
Generated == SliceFrom(generate_ids, Len(inputs))

\* indices of the registered stop sequences that end the generated part
StopsEndingGenerated == Matching(Generated, stop_words_ids)

\* C1 as stated: after each generated token the stop predicate signals stop
\* if and only if the tail of the generated ids, prompt excluded, equals a
\* registered stop sequence.
C1_Original ==
    (pc \in {"generate", "decode"} /\ Generated # <<>>) =>
        (stop_signal <=> StopsEndingGenerated # {})

\* C2 as stated: when decoding halted on a stop sequence ending the generated
\* ids, the ids handed to the decoder are the generated ids without it.
C2_Original ==
    (pc = "done" /\ stop_signal /\ StopsEndingGenerated # {}) =>
        \E i \in StopsEndingGenerated :
            token_ids \o stop_words_ids[i] = Generated

\* C9: every marker, caller-supplied first and then the template's, gives
\* exactly one stop sequence: its token ids without the leading id iff there
\* are more than one and the first is 29871, and verbatim otherwise.
C9_StopSequencesBuilt ==
    pc \in {"generate", "decode", "done"} =>
        /\ stop_markers = stops_kw \o TemplateStops
        /\ Len(stop_words_ids) = Len(stop_markers)
        /\ \A i \in 1..Len(stop_markers) :
              LET enc == Encode(stop_markers[i], FALSE)
              IN  IF Len(enc) > 1 /\ enc[1] = SentinelId
                  THEN /\ Len(stop_words_ids[i]) = Len(enc) - 1
                       /\ \A k \in 1..Len(stop_words_ids[i]) :
                             stop_words_ids[i][k] = enc[k + 1]
                  ELSE stop_words_ids[i] = enc

\* one marker tokenizes to the single id 29871 and is kept; another starts
\* with 29871, has more ids, and lost it
C9_Witness ==
    /\ pc = "generate"
    /\ \E i, j \in 1..Len(stop_markers) :
          /\ Encode(stop_markers[i], FALSE) = <<SentinelId>>
          /\ stop_words_ids[i] = <<SentinelId>>
          /\ Len(Encode(stop_markers[j], FALSE)) > 1
          /\ Encode(stop_markers[j], FALSE)[1] = SentinelId
          /\ Len(stop_words_ids[j]) = Len(Encode(stop_markers[j], FALSE)) - 1

----------------------------------------------------------------------------
\* enforce_tool_choice, enforce_code_interpreter

\* Tool.parse_obj(PYTHON_RUN_TOOL)
PYTHON_RUN_TOOL == ToolRec("function", "python", "pydesc", "emptyobj")

\* what a call gives back: a value, or the exception it raised; same_object
\* tells that the value is the very list object the caller passed in
Returned(value, same_object) ==
    [status |-> "ok", value |-> value, same_object |-> same_object]
Raised(exception) ==
    [status |-> exception, value |-> NoneList, same_object |-> FALSE]

\* mutant of enforce_tool_choice: the assertion is missing
enforce_tool_choice_unchecked(tc, tools) ==
    IF tc.kind = "none" THEN Returned(ListOf(<<>>), FALSE)
    ELSE IF tc.kind = "Tool"
    THEN IF tc.tool.description = "" /\ tc.tool.parameters = "None"
         THEN IF tools.isNone THEN Raised("TypeError")
              ELSE LET Named(tool) == tool.name = tc.tool.name
                   IN  Returned(ListOf(SelectSeq(tools.items, Named)), FALSE)
         ELSE Returned(ListOf(<<tc.tool>>), FALSE)
    ELSE Returned(tools, TRUE)

enforce_tool_choice(tc, tools) ==
    IF tc.kind = "none" THEN Returned(ListOf(<<>>), FALSE)
    ELSE IF tc.kind = "Tool"
    THEN IF tc.tool.description = "" /\ tc.tool.parameters = "None"
         THEN IF tools.isNone THEN Raised("TypeError")
              ELSE LET Named(tool) == tool.name = tc.tool.name
                       filtered == SelectSeq(tools.items, Named)
                   IN  IF Len(filtered) > 0
                       THEN Returned(ListOf(filtered), FALSE)
                       ELSE Raised("AssertionError")
         ELSE Returned(ListOf(<<tc.tool>>), FALSE)
    ELSE Returned(tools, TRUE)

\* mutant of ReplaceFrom: the break is missing
RECURSIVE ReplaceEvery(_, _)
ReplaceEvery(items, i) ==
    IF i > Len(items) THEN items
    ELSE IF items[i].type = "code_interpreter"
         THEN ReplaceEvery([items EXCEPT ![i] = PYTHON_RUN_TOOL], i + 1)
         ELSE ReplaceEvery(items, i + 1)

\* lines 135-138: the scan from index i on, stopping at the first match
RECURSIVE ReplaceFrom(_, _)
ReplaceFrom(items, i) ==
    IF i > Len(items) THEN items
    ELSE IF items[i].type = "code_interpreter"
         THEN [items EXCEPT ![i] = PYTHON_RUN_TOOL]
         ELSE ReplaceFrom(items, i + 1)

\* the contents of the list object after enforce_code_interpreter ran on it
enforce_code_interpreter(tools) ==
    IF tools.isNone THEN tools ELSE ListOf(ReplaceFrom(tools.items, 1))

----------------------------------------------------------------------------
\* SpecTools: a caller holding a message list, a tool list and a tool choice
\* calls the three functions on them, in any order, any number of times.

ToolUniverse ==
    { ToolRec("function", "f", "d1", "p"),
      ToolRec("function", "f", "d2", "p"),
      ToolRec("function", "g", "d1", "p"),
      ToolRec("code_interpreter", "ci", "", "None") }

BareChoice(n) == ChoiceTool(ToolRec("function", n, "", "None"))

ToolChoices ==
    { ChoiceNone, ChoiceStr("auto"), ChoiceStr("none"),
      BareChoice("f"), BareChoice("g"), BareChoice("h"),
      ChoiceTool(ToolRec("function", "g", "d1", "p")) }

MessageRec(role, content) == [role |-> role, content |-> content]

Conversations ==
    { <<MessageRec("user", "Hi")>>,
      <<MessageRec("user", "Hi"), MessageRec("assistant", "Hello")>> }

InitTools ==
    /\ pc = "caller"
    /\ caller_tools \in
          {NoneList} \cup { ListOf(l) : l \in SeqsUpTo(ToolUniverse, MaxTools) }
    /\ caller_messages \in Conversations
    /\ orig_messages = caller_messages
    /\ tool_choice \in ToolChoices
    /\ call = Unused
    /\ arg_tools = caller_tools
    /\ result = Unused
    /\ dic_messages = <<>>
    /\ rendered = <<>>
    /\ final_prompt = <<>>
    /\ IdleTrim
    /\ IdleGen

\* tools = enforce_tool_choice(tool_choice, tools): only the local name is
\* rebound, the list object passed in is left alone
CallEnforceToolChoice ==
    /\ pc = "caller"
    /\ call' = "enforce_tool_choice"
    /\ arg_tools' = caller_tools
    /\ result' = enforce_tool_choice(tool_choice, caller_tools)
    /\ UNCHANGED <<pc, trimVars, genVars, caller_tools, caller_messages,
                   orig_messages, tool_choice, dic_messages, rendered,
                   final_prompt>>

\* enforce_code_interpreter(tools): tools[i] = ... writes into the list
\* object passed in, and that object is returned
CallEnforceCodeInterpreter ==
    /\ pc = "caller"
    /\ call' = "enforce_code_interpreter"
    /\ arg_tools' = caller_tools
    /\ caller_tools' = enforce_code_interpreter(caller_tools)
    /\ result' = Returned(caller_tools', TRUE)
    /\ UNCHANGED <<pc, trimVars, genVars, caller_messages, orig_messages,
                   tool_choice, dic_messages, rendered, final_prompt>>

\* prepare_messages_for_inference(messages=..., tools=..., tool_choice=...):
\* the template renders the records to some text, then lines 75-86
CallPrepareMessages ==
    /\ pc = "caller"
    /\ call' = "prepare_messages_for_inference"
    /\ arg_tools' = caller_tools
    /\ dic_messages' = Append(caller_messages, MessageRec("assistant", "None"))
    /\ \E text \in SeqsUpTo(TextPieces, MaxTextLen) :
          /\ rendered' = text
          /\ final_prompt' = text \o ForcedSuffix(tool_choice)
          /\ result' = Returned(
                prepare_messages_for_inference(text, tool_choice), FALSE)
    /\ UNCHANGED <<pc, trimVars, genVars, caller_tools, caller_messages,
                   orig_messages, tool_choice>>

NextTools ==
    CallEnforceToolChoice \/ CallEnforceCodeInterpreter \/ CallPrepareMessages

SpecTools == InitTools /\ [][NextTools]_vars

\* the last call was enforce_tool_choice with a bare-name Tool on a list
BareCall ==
    /\ call = "enforce_tool_choice"
    /\ tool_choice.kind = "Tool"
    /\ tool_choice.tool.description = ""
    /\ tool_choice.tool.parameters = "None"
    /\ ~arg_tools.isNone

\* indices of the declared tools carrying the chosen name
NamedAt == { i \in 1..Len(arg_tools.items) :
                arg_tools.items[i].name = tool_choice.tool.name }

\* the k-th smallest index in NamedAt
KthNamed(k) ==
    CHOOSE i \in NamedAt : Cardinality({ j \in NamedAt : j <= i }) = k

\* C5 as stated: a bare-name choice whose name is declared returns exactly
\* the singleton list holding the tool with that name; an undeclared name
\* fails the assertion.
C5_Original ==
    BareCall =>
        IF NamedAt # {}
        THEN /\ result.status = "ok"
             /\ Len(result.value.items) = 1
             /\ result.value.items[1].name = tool_choice.tool.name
        ELSE result.status = "AssertionError"

\* C5 amended: a bare-name choice whose name is declared returns the list of
\* every declared tool with that name, in declared order (a singleton when
\* the name is declared once); an undeclared name fails the assertion and
\* returns no list.
C5_BareNameFilters ==
    BareCall =>
        IF NamedAt # {}
        THEN /\ result.status = "ok"
             /\ ~result.value.isNone
             /\ Len(result.value.items) = Cardinality(NamedAt)
             /\ \A k \in 1..Len(result.value.items) :
                   result.value.items[k] = arg_tools.items[KthNamed(k)]
        ELSE result.status = "AssertionError"

\* of two declared tools the second carries the chosen name and comes back
\* alone
C5_Witness ==
    /\ BareCall
    /\ Len(arg_tools.items) = 2
    /\ NamedAt = {2}
    /\ result.status = "ok"
    /\ result.value.items = <<arg_tools.items[2]>>

\* the last call was prepare_messages_for_inference
PrepareCall == call = "prepare_messages_for_inference"

\* C6 as stated: a suffix is appended to the rendering iff the policy is a
\* Tool, and it is then the tool's name and the function-parameter marker;
\* under "auto", "none" or no policy the rendering alone is tokenized.
C6_Original ==
    PrepareCall =>
        /\ (final_prompt # rendered) <=> (tool_choice.kind = "Tool")
        /\ tool_choice.kind = "Tool" =>
              final_prompt = rendered \o <<tool_choice.tool.name>>
                                      \o StopTokenForFunctionParameter
        /\ tool_choice.kind # "Tool" => result.value = Encode(rendered, TRUE)

\* C6 amended: a suffix is appended iff the policy is neither absent nor
\* "auto"; for a Tool it is the tool's name and the function-parameter
\* marker, for "none" it is the template's first predefined function name and
\* that marker; under "auto" or no policy the rendering alone is tokenized.
C6_ForcedSuffix ==
    PrepareCall =>
        /\ (final_prompt # rendered) <=> (tool_choice.kind \in {"Tool", "none"})
        /\ tool_choice.kind = "Tool" =>
              final_prompt = rendered \o <<tool_choice.tool.name>>
                                      \o StopTokenForFunctionParameter
        /\ tool_choice.kind = "none" =>
              final_prompt = rendered \o <<PredefinedFunctionNames[1]>>
                                      \o StopTokenForFunctionParameter
        /\ tool_choice.kind \in {"None", "auto"} =>
              result.value = Encode(rendered, TRUE)
        /\ result.value = Encode(final_prompt, TRUE)

\* a prompt was assembled under policy "none" and carries the suffix
C6_Witness ==
    /\ PrepareCall
    /\ tool_choice.kind = "none"
    /\ rendered # <<>>
    /\ Len(final_prompt) = Len(rendered) + 2
    /\ final_prompt[Len(final_prompt)] = "fparam"

\* index i holds the first code_interpreter entry of the list
FirstInterpreter(items, i) ==
    /\ items[i].type = "code_interpreter"
    /\ \A j \in 1..(i - 1) : items[j].type # "code_interpreter"

\* C7: enforce_code_interpreter returns a list of the same length and order
\* in which only the first code_interpreter entry is replaced by the python
\* tool; without such an entry, or for None, the result equals the input and
\* nothing is raised.
C7_FirstInterpreterReplaced ==
    call = "enforce_code_interpreter" =>
        /\ result.status = "ok"
        /\ result.value.isNone = arg_tools.isNone
        /\ Len(result.value.items) = Len(arg_tools.items)
        /\ \A i \in 1..Len(arg_tools.items) :
              result.value.items[i] =
                 IF FirstInterpreter(arg_tools.items, i)
                 THEN PYTHON_RUN_TOOL
                 ELSE arg_tools.items[i]

\* two code_interpreter entries: the first became python, the second stayed
C7_Witness ==
    /\ call = "enforce_code_interpreter"
    /\ Len(arg_tools.items) = 2
    /\ arg_tools.items[1].type = "code_interpreter"
    /\ arg_tools.items[2].type = "code_interpreter"
    /\ result.value.items[1] = PYTHON_RUN_TOOL
    /\ result.value.items[2] = arg_tools.items[2]

\* C8 as stated: after any of the three calls the caller's message list and
\* tool list hold the same elements in the same order as before the call.
C8_Original ==
    call # Unused =>
        /\ caller_tools = arg_tools
        /\ caller_messages = orig_messages

====
